---- MODULE Spec2Model ----
(***************************************************************************)
(* Model of backend/main.py of vocabstream-backend: the /api/chat handler  *)
(* (casual and lesson modes) and the /api/voice handler, each driving one  *)
(* call to the external provider.                                          *)
(*                                                                         *)
(* Conventions.  A Python dict is a function from the keys it holds;       *)
(* d.get(k, default) is Get(d, k, default).  A Python Optional is a        *)
(* sequence of length at most one: None is <<>> and a value v is <<v>>.    *)
(* A Python call that may raise yields Ok(v) or Raise(msg).  A formatted   *)
(* string is the record of the values interpolated into its template.      *)
(***************************************************************************)
EXTENDS Integers, Sequences, FiniteSets, TLC

(***************************************************************************)
(* Bounds of the explored inputs.                                          *)
(***************************************************************************)
MaxLen == 2
MaxTopics == 2

(***************************************************************************)
(* Python values.                                                          *)
(***************************************************************************)
EmptyDict == [k \in {} |-> k]
Get(d, k, default) == IF k \in DOMAIN d THEN d[k] ELSE default
None == <<>>
Some(v) == <<v>>
Ok(v) == [raised |-> FALSE, value |-> v]
Raise(msg) == [raised |-> TRUE, msg |-> msg]
\* truth value of an Optional[dict]: None and {} are false
Truthy(o) == o # None /\ DOMAIN o[1] # {}
Abs(n) == IF n < 0 THEN -n ELSE n
Min(a, b) == IF a < b THEN a ELSE b
Max(a, b) == IF a > b THEN a ELSE b

\* ", ".join(xs): the items with the separator between neighbours
RECURSIVE Join(_)
Join(xs) ==
    IF Len(xs) = 0 THEN <<>>
    ELSE IF Len(xs) = 1 THEN <<xs[1]>>
    ELSE <<xs[1], ", ">> \o Join(Tail(xs))

(***************************************************************************)
(* Double-precision arithmetic of the two numeric expressions.             *)
(***************************************************************************)
RECURSIVE Pow2(_)
Pow2(e) == IF e = 0 THEN 1 ELSE 2 * Pow2(e - 1)

\* floor(log2(a / b)) for positive integers a, b
RECURSIVE Log2Up(_, _, _)
Log2Up(a, b, j) == IF a >= 2 * b * Pow2(j) THEN Log2Up(a, b, j + 1) ELSE j
RECURSIVE Log2Down(_, _, _)
Log2Down(a, b, s) == IF a * Pow2(s) >= b THEN -s ELSE Log2Down(a, b, s + 1)
Log2Floor(a, b) == IF a >= b THEN Log2Up(a, b, 0) ELSE Log2Down(a, b, 1)

\* int((t / 60) * 100) for t > 0, evaluated as Python evaluates it: t / 60
\* is rounded to a 53-bit significand, the product with 100 is rounded
\* again, and int() truncates.  With j = floor(log2(t/60)) and the unit
\* u = 2^(j-52), t/60 = m*u for a real m whose fractional part is rho/15
\* (2^4 = 1 mod 15), so the quotient is off by d/15 units, d in -7..7, and
\* the exact product is off from 100t/60 by 20d/3 units.  When 100t/60 is
\* not an integer that error is far below its distance to an integer.  When
\* it is an integer n, the rounded product is below n exactly when the
\* error is negative and exceeds half the spacing of doubles just below n,
\* which is 2^(k-j) units (half of that when n is a power of two),
\* k = floor(log2(n)); int() then yields n - 1.
FloatQuotientError(t) ==
    LET j == Log2Floor(t, 60)
        rho == (t * Pow2((50 - j) % 4)) % 15
    IN  IF rho <= 7 THEN -rho ELSE 15 - rho
ProductRoundsBelow(t) ==
    LET n == (5 * t) \div 3
        j == Log2Floor(t, 60)
        k == Log2Floor(n, 1)
        d == FloatQuotientError(t)
    IN  /\ d < 0
        /\ IF n = Pow2(k) THEN 80 * (-d) > 3 * Pow2(k - j)
                          ELSE 40 * (-d) > 3 * Pow2(k - j)
PositiveTokens(t) ==
    IF t % 3 # 0 THEN (100 * t) \div 60
    ELSE IF ProductRoundsBelow(t) THEN ((5 * t) \div 3) - 1
    ELSE (5 * t) \div 3
\* int((time_remaining / 60) * 100); int() truncates toward zero and the
\* rounding of doubles is symmetric in the sign
IntTokens(t) ==
    IF t = 0 THEN 0
    ELSE IF t > 0 THEN PositiveTokens(t)
    ELSE -PositiveTokens(-t)

\* f"{remaining_seconds / 60:.0f}": round to nearest, ties to even; the
\* sign is kept, so -30 / 60 renders as "-0"
FormatMinutes(s) ==
    LET a == Abs(s)
        q == a \div 60
        r == a % 60
        n == IF r < 30 THEN q
             ELSE IF r > 30 THEN q + 1
             ELSE IF q % 2 = 0 THEN q ELSE q + 1
    IN  [sign |-> IF s < 0 THEN "-" ELSE "", digits |-> n]

(***************************************************************************)
(* Prompt construction.                                                    *)
(***************************************************************************)
build_casual_system_prompt(level, topics) ==
    [template |-> "You are a friendly and engaging English conversation partner.",
     level |-> level,
     topics_str |-> Join(topics)]

\* the remaining-time line of the lesson prompt: "" (here None) without
\* timing, else the sentence with the rendered minutes
remaining_time(component_timing) ==
    IF DOMAIN component_timing # {}
    THEN Some([sentence |-> "You have approximately {} minutes for this section.",
               minutes |-> FormatMinutes(Get(component_timing, "durationSeconds", 300))])
    ELSE None

component_guidance(current_component, level, vocab_category) ==
    IF current_component = "Vocab Practice"
    THEN [focus |-> "Focus on vocabulary practice",
          args |-> IF vocab_category # None /\ vocab_category[1] # ""
                   THEN <<" from ", vocab_category[1]>> ELSE <<>>,
          marker |-> "- Provide pronunciation guidance"]
    ELSE IF current_component = "Reading Comprehension"
    THEN [focus |-> "Focus on reading comprehension:", args |-> <<>>,
          marker |-> "- Encourage the user to summarize the passage"]
    ELSE IF current_component = "Speaking Practice"
    THEN [focus |-> "Focus on speaking practice:", args |-> <<>>,
          marker |-> "- Encourage more natural, longer answers"]
    ELSE IF current_component = "Pronunciation Practice"
    THEN [focus |-> "Focus on pronunciation:", args |-> <<>>,
          marker |-> "- Use phonetic explanations"]
    ELSE IF current_component = "Grammar"
    THEN [focus |-> "Focus on grammar practice:", args |-> <<>>,
          marker |-> "- Correct errors constructively"]
    ELSE [focus |-> "Focus on {}:", args |-> <<current_component, level>>,
          marker |-> "- Adapt difficulty to level {}"]

build_lesson_system_prompt(level, topics, tests, skills, current_component, component_timing, vocab_category) ==
    [template |-> "You are a professional English tutor preparing the student for {} exams.",
     level |-> level,
     topics_str |-> Join(topics),
     tests_str |-> IF tests # <<>> THEN Join(tests) ELSE <<"General English">>,
     skills_str |-> IF skills # <<>> THEN Join(skills) ELSE <<"All skills">>,
     current_component |-> current_component,
     remaining_time |-> remaining_time(component_timing),
     component_guidance |-> component_guidance(current_component, level, vocab_category)]

(***************************************************************************)
(* Component timing lookup.                                                *)
(***************************************************************************)
\* variant: the bound test written <= instead of <
get_component_info_inclusive(component_timing, current_component_idx) ==
    IF current_component_idx <= Len(component_timing)
    THEN IF current_component_idx >= 0 /\ current_component_idx < Len(component_timing)
         THEN Ok(Some(component_timing[current_component_idx + 1]))
         ELSE IF current_component_idx < 0
                 /\ current_component_idx >= -Len(component_timing)
         THEN Ok(Some(component_timing[Len(component_timing) + current_component_idx + 1]))
         ELSE Raise("list index out of range")
    ELSE Ok(None)

\* component_timing[current_component_idx] with Python's indexing: a
\* negative index counts from the end, and an index below -len raises
get_component_info(component_timing, current_component_idx) ==
    IF current_component_idx < Len(component_timing)
    THEN IF current_component_idx >= 0
         THEN Ok(Some(component_timing[current_component_idx + 1]))
         ELSE IF current_component_idx >= -Len(component_timing)
         THEN Ok(Some(component_timing[Len(component_timing) + current_component_idx + 1]))
         ELSE Raise("list index out of range")
    ELSE Ok(None)

(***************************************************************************)
(* The provider client and the responses handed to the transport.          *)
(***************************************************************************)
\* a dict returned by a handler: FastAPI sends it as JSON with status 200
JSONBody(content) == [kind |-> "json", status_code |-> 200, content |-> content]
JSONResponse(content, status_code) ==
    [kind |-> "json", status_code |-> status_code, content |-> content]
StreamingResponse(body, media_type) ==
    [kind |-> "stream", status_code |-> 200, media_type |-> media_type, body |-> body]

\* completion.choices[0].message.content
first_choice_content(completion) ==
    IF Len(completion.choices) > 0
    THEN Ok(completion.choices[1].content)
    ELSE Raise("list index out of range")

(***************************************************************************)
(* /api/chat                                                               *)
(***************************************************************************)
\* variant: any mode other than "lesson" handled as casual
chat_route_default_casual(req) ==
    IF Get(req, "mode", "casual") = "lesson" THEN "lesson" ELSE "casual"

\* the branch chat() takes on req.get("mode", "casual")
chat_route(req) ==
    LET mode == Get(req, "mode", "casual")
    IN  IF mode = "casual" THEN "casual"
        ELSE IF mode = "lesson" THEN "lesson"
        ELSE "unknown"

chat_unknown_mode == [error |-> "Unknown mode. Use 'casual' or 'lesson'."]

\* handle_casual_chat up to the provider call: the arguments of the call
handle_casual_chat_call(req) ==
    LET message == Get(req, "message", "")
        level == Get(req, "level", "A1")
        topics == Get(req, "topics", <<"General">>)
        system_prompt == build_casual_system_prompt(level, topics)
    IN  Ok([call |-> [api |-> "chat.completions.create",
                      model |-> "gpt-4o-mini",
                      system |-> system_prompt,
                      user |-> message,
                      temperature_tenths |-> 7,
                      max_tokens |-> 500],
            frame |-> [topics |-> topics]])

\* variant: the success envelope of the legacy endpoint, without mode
handle_casual_chat_return_legacy(frame, outcome) ==
    IF outcome.raised
    THEN Ok([error |-> outcome.msg, mode |-> "casual"])
    ELSE LET reply == first_choice_content(outcome.value)
         IN  IF reply.raised
             THEN Ok([error |-> reply.msg, mode |-> "casual"])
             ELSE Ok([reply |-> reply.value])

\* handle_casual_chat from the provider's outcome to its return value
handle_casual_chat_return(frame, outcome) ==
    IF outcome.raised
    THEN Ok([error |-> outcome.msg, mode |-> "casual"])
    ELSE LET reply == first_choice_content(outcome.value)
         IN  IF reply.raised
             THEN Ok([error |-> reply.msg, mode |-> "casual"])
             ELSE Ok([reply |-> reply.value, mode |-> "casual"])

\* max_tokens of a lesson call
lesson_max_tokens(time_remaining) ==
    Max(Min(IntTokens(time_remaining), 500), 150)

\* time_remaining of handle_lesson_chat
lesson_time_remaining(current_timing) ==
    IF Truthy(current_timing)
    THEN Get(current_timing[1], "durationSeconds", 300)
    ELSE 300

\* handle_lesson_chat up to the provider call; a fault raised on the way
\* is caught by the handler's except clause before any call is made
handle_lesson_chat_call(req) ==
    LET message == Get(req, "message", "")
        level == Get(req, "level", "A1")
        topics == Get(req, "topics", <<"General">>)
        tests == Get(req, "tests", <<>>)
        skills == Get(req, "skills", <<"Reading", "Listening", "Writing", "Speaking">>)
        current_component == Get(req, "currentComponentName", "General")
        component_timing_list == Get(req, "componentTiming", <<>>)
        current_component_idx == Get(req, "currentComponent", 0)
        vocab_category == IF "vocabCategory" \in DOMAIN req
                          THEN Some(req["vocabCategory"]) ELSE None
        info == get_component_info(component_timing_list, current_component_idx)
    IN  IF info.raised THEN Raise(info.msg)
        ELSE
        LET current_timing == info.value
            system_prompt == build_lesson_system_prompt(
                level, topics, tests, skills, current_component,
                IF Truthy(current_timing) THEN current_timing[1] ELSE EmptyDict,
                vocab_category)
            time_remaining == lesson_time_remaining(current_timing)
        IN  Ok([call |-> [api |-> "chat.completions.create",
                          model |-> "gpt-4o-mini",
                          system |-> system_prompt,
                          user |-> message,
                          temperature_tenths |-> 7,
                          max_tokens |-> lesson_max_tokens(time_remaining)],
                frame |-> [topics |-> topics,
                           current_component |-> current_component,
                           current_timing |-> current_timing,
                           time_remaining |-> time_remaining]])

\* variant: timeRemaining decided by "is not None" instead of truthiness
lesson_reply_not_none(frame, reply) ==
    [reply |-> reply,
     mode |-> "lesson",
     currentComponent |-> frame.current_component,
     timeRemaining |-> IF frame.current_timing # None
                       THEN Some(frame.time_remaining) ELSE None]

\* the success envelope of handle_lesson_chat
lesson_reply(frame, reply) ==
    [reply |-> reply,
     mode |-> "lesson",
     currentComponent |-> frame.current_component,
     timeRemaining |-> IF Truthy(frame.current_timing)
                       THEN Some(frame.time_remaining) ELSE None]

\* variant: no except clause around the provider call
handle_lesson_chat_return_no_except(frame, outcome) ==
    IF outcome.raised
    THEN Raise(outcome.msg)
    ELSE LET reply == first_choice_content(outcome.value)
         IN  IF reply.raised
             THEN Raise(reply.msg)
             ELSE Ok([reply |-> reply.value,
                      mode |-> "lesson",
                      currentComponent |-> frame.current_component,
                      timeRemaining |-> IF Truthy(frame.current_timing)
                                        THEN Some(frame.time_remaining) ELSE None])

\* handle_lesson_chat from the provider's outcome to its return value
handle_lesson_chat_return(frame, outcome) ==
    IF outcome.raised
    THEN Ok([error |-> outcome.msg, mode |-> "lesson"])
    ELSE LET reply == first_choice_content(outcome.value)
         IN  IF reply.raised
             THEN Ok([error |-> reply.msg, mode |-> "lesson"])
             ELSE Ok(lesson_reply(frame, reply.value))

(***************************************************************************)
(* /api/voice                                                              *)
(***************************************************************************)
\* variant: only a missing key counts as missing text
voice_text_missing_key_only(req) == "text" \notin DOMAIN req

\* "not text" for the str fetched by req.get("text", "")
voice_text_missing(req) == Get(req, "text", "") = ""

voice_call(req) ==
    [api |-> "audio.speech.create",
     model |-> "gpt-4o-mini-tts",
     voice |-> Get(req, "voice", "alloy"),
     input |-> Get(req, "text", "")]

\* the attribute probe of voice(): the first attribute, in this order, that
\* holds bytes or a file-like object decides; read() may return None or raise
ProbedAttrs == <<"audio", "data", "content", "raw", "raw_audio">>
RECURSIVE probe_attrs(_, _)
probe_attrs(resp, attrs) ==
    IF attrs = <<>> THEN Ok(None)
    ELSE IF Head(attrs) \in DOMAIN resp.attrs
    THEN LET candidate == resp.attrs[Head(attrs)]
         IN  IF candidate.type = "bytes" THEN Ok(Some(candidate.value))
             ELSE IF candidate.type = "file" THEN candidate.read
             ELSE probe_attrs(resp, Tail(attrs))
    ELSE probe_attrs(resp, Tail(attrs))

\* audio_bytes of voice(): None when nothing was found
extract_audio_bytes(resp) ==
    IF resp.type = "bytes" THEN Ok(Some(resp.value))
    ELSE probe_attrs(resp, ProbedAttrs)

\* variant: "if not audio_bytes" instead of "if audio_bytes is None"
voice_return_falsy_bytes(outcome) ==
    IF outcome.raised
    THEN JSONResponse([error |-> "OpenAI TTS error", details |-> outcome.msg], 500)
    ELSE LET audio_bytes == extract_audio_bytes(outcome.value)
         IN  IF audio_bytes.raised
             THEN JSONResponse([error |-> "OpenAI TTS error",
                                details |-> audio_bytes.msg], 500)
             ELSE IF audio_bytes.value = None \/ audio_bytes.value[1] = <<>>
             THEN JSONResponse(
                      [error |-> "Could not extract audio bytes from OpenAI response",
                       raw |-> [str |-> outcome.value]], 500)
             ELSE StreamingResponse(audio_bytes.value[1], "audio/mpeg")

\* voice() from the provider's outcome to its response
voice_return(outcome) ==
    IF outcome.raised
    THEN JSONResponse([error |-> "OpenAI TTS error", details |-> outcome.msg], 500)
    ELSE LET audio_bytes == extract_audio_bytes(outcome.value)
         IN  IF audio_bytes.raised
             THEN JSONResponse([error |-> "OpenAI TTS error",
                                details |-> audio_bytes.msg], 500)
             ELSE IF audio_bytes.value = None
             THEN JSONResponse(
                      [error |-> "Could not extract audio bytes from OpenAI response",
                       raw |-> [str |-> outcome.value]], 500)
             ELSE StreamingResponse(audio_bytes.value[1], "audio/mpeg")

(***************************************************************************)
(* Inputs: JSON objects whose present fields have the declared types; any  *)
(* field may be absent, as the handlers' .get defaults provide for.        *)
(***************************************************************************)
RECURSIVE SeqsUpTo(_, _)
SeqsUpTo(S, n) ==
    IF n = 0 THEN {<<>>}
    ELSE LET shorter == SeqsUpTo(S, n - 1)
         IN  shorter \cup {Append(s, x) : s \in {t \in shorter : Len(t) = n - 1}, x \in S}

\* a key holding one of vals, or no key at all
Optional(k, vals) == {EmptyDict} \cup {k :> v : v \in vals}

Durations == {0, 90, 123, 300, 600}
TimingEntries ==
    {EmptyDict, [component |-> "Grammar"]}
    \cup {[component |-> "Grammar", startSeconds |-> 0, endSeconds |-> d,
           durationSeconds |-> d] : d \in Durations}
TopicNames == {"Travel", "Food"}

Profiles ==
    {EmptyDict,
     [message |-> "Hi", level |-> "B1", currentComponentName |-> "Grammar",
      tests |-> <<"TOEFL", "IELTS">>, skills |-> <<"Speaking">>],
     [message |-> "Hi", level |-> "A2", currentComponentName |-> "Vocab Practice",
      tests |-> <<>>, skills |-> <<>>, vocabCategory |-> "Animals"],
     [message |-> "", level |-> "C1", currentComponentName |-> "Warm-up"]}

\* the lesson fields vary in full under mode "lesson"; the other modes never
\* read them and carry one sample of each
LessonRequests ==
    {[mode |-> "lesson"] @@ t @@ p @@ l @@ i :
        t \in Optional("topics", SeqsUpTo(TopicNames, MaxTopics)),
        p \in Profiles,
        l \in Optional("componentTiming", SeqsUpTo(TimingEntries, MaxLen)),
        i \in Optional("currentComponent", -1 .. MaxLen + 1)}
OtherRequests ==
    {m @@ t @@ p @@ l :
        m \in Optional("mode", {"casual", "tutor", "Lesson", ""}),
        t \in Optional("topics", SeqsUpTo(TopicNames, MaxTopics)),
        p \in Profiles,
        l \in Optional("componentTiming", {<<[component |-> "Grammar"]>>})}
ChatRequests == LessonRequests \cup OtherRequests

VoiceRequests ==
    {t @@ v : t \in Optional("text", {"", "Hello"}), v \in Optional("voice", {"nova"})}

\* what chat.completions.create may do: return a completion, return one
\* without choices, or raise
TextOutcomes ==
    {Ok([choices |-> <<[content |-> c]>>]) : c \in {"Sure!", ""}}
    \cup {Ok([choices |-> <<>>])}
    \cup {Raise(e) : e \in {"Request timed out.", "Incorrect API key provided"}}

\* what audio.speech.create may do: return bytes, return an object with
\* some of the probed attributes, or raise
Bytes == {<<82, 73, 70, 70>>, <<>>}
Candidates ==
    {[type |-> "bytes", value |-> b] : b \in Bytes}
    \cup {[type |-> "file", read |-> r] :
             r \in {Ok(Some(<<73, 68, 51>>)), Ok(None), Raise("read failed")}}
    \cup {[type |-> "str"]}
AttrSets == SUBSET {ProbedAttrs[n] : n \in 1 .. Len(ProbedAttrs)}
SpeechOutcomes ==
    {Ok([type |-> "bytes", value |-> b]) : b \in Bytes}
    \cup UNION {{Ok([type |-> "object", attrs |-> a]) : a \in [A -> Candidates]} :
                 A \in {B \in AttrSets : Cardinality(B) <= 2}}
    \cup {Raise("Connection error.")}

(***************************************************************************)
(* The server handling one request at a time.                              *)
(***************************************************************************)
VARIABLES
    pc,        \* "idle", "awaiting" (suspended in the provider call), "done"
    handler,   \* the handler the request was routed to
    req,       \* the request being handled
    frame,     \* the locals the suspended handler keeps
    calls,     \* the provider calls made for this request, in order
    outcome,   \* what the provider call did, once it returned
    sent,      \* the responses handed to the transport for this request
    unhandled  \* the fault that escaped the handler, if any

vars == <<pc, handler, req, frame, calls, outcome, sent, unhandled>>

Init ==
    /\ pc = "idle"
    /\ handler = "none"
    /\ req = EmptyDict
    /\ frame = EmptyDict
    /\ calls = <<>>
    /\ outcome = None
    /\ sent = <<>>
    /\ unhandled = None

\* one request per behaviour: the handlers share no state across requests
Accepting == pc = "idle"

\* a handler finished without a provider call
Finish(h, r, result) ==
    /\ pc' = "done"
    /\ handler' = h
    /\ req' = r
    /\ frame' = EmptyDict
    /\ calls' = <<>>
    /\ outcome' = None
    /\ sent' = IF result.raised THEN <<>> ELSE <<result.value>>
    /\ unhandled' = IF result.raised THEN Some(result.msg) ELSE None

\* a handler suspended in its provider call
Suspend(h, r, call, f) ==
    /\ pc' = "awaiting"
    /\ handler' = h
    /\ req' = r
    /\ frame' = f
    /\ calls' = <<call>>
    /\ outcome' = None
    /\ sent' = <<>>
    /\ unhandled' = None

\* the suspended handler resumes with the provider's outcome and returns
Resume(o, result) ==
    /\ pc' = "done"
    /\ outcome' = Some(o)
    /\ sent' = IF result.raised THEN sent ELSE Append(sent, result.value)
    /\ unhandled' = IF result.raised THEN Some(result.msg) ELSE None
    /\ UNCHANGED <<handler, req, frame, calls>>

\* POST /api/chat with an unknown mode
ChatUnknownMode ==
    /\ Accepting
    /\ \E r \in ChatRequests :
        /\ chat_route(r) = "unknown"
        /\ Finish("chat", r, Ok(JSONBody(chat_unknown_mode)))

\* POST /api/chat, casual mode, up to the provider call
CasualCall ==
    /\ Accepting
    /\ \E r \in ChatRequests :
        /\ chat_route(r) = "casual"
        /\ LET pre == handle_casual_chat_call(r)
           IN  Suspend("casual", r, pre.value.call, pre.value.frame)

\* POST /api/chat, lesson mode, up to the provider call or to the fault
\* its except clause turns into an error envelope
LessonCall ==
    /\ Accepting
    /\ \E r \in ChatRequests :
        /\ chat_route(r) = "lesson"
        /\ LET pre == handle_lesson_chat_call(r)
           IN  IF pre.raised
               THEN Finish("lesson", r, Ok(JSONBody([error |-> pre.msg, mode |-> "lesson"])))
               ELSE Suspend("lesson", r, pre.value.call, pre.value.frame)

\* the casual handler resumes with the provider's outcome
CasualReturn ==
    /\ pc = "awaiting"
    /\ handler = "casual"
    /\ \E o \in TextOutcomes :
        LET result == handle_casual_chat_return(frame, o)
        IN  Resume(o, IF result.raised THEN result ELSE Ok(JSONBody(result.value)))

\* variant: a failed provider call is issued again
LessonReturnRetry ==
    /\ pc = "awaiting"
    /\ handler = "lesson"
    /\ \E o \in TextOutcomes :
        IF o.raised /\ Len(calls) < 3
        THEN /\ calls' = Append(calls, calls[1])
             /\ UNCHANGED <<pc, handler, req, frame, outcome, sent, unhandled>>
        ELSE LET result == handle_lesson_chat_return(frame, o)
             IN  Resume(o, IF result.raised THEN result ELSE Ok(JSONBody(result.value)))

\* the lesson handler resumes with the provider's outcome
LessonReturn ==
    /\ pc = "awaiting"
    /\ handler = "lesson"
    /\ \E o \in TextOutcomes :
        LET result == handle_lesson_chat_return(frame, o)
        IN  Resume(o, IF result.raised THEN result ELSE Ok(JSONBody(result.value)))

\* POST /api/voice without text
VoiceReject ==
    /\ Accepting
    /\ \E r \in VoiceRequests :
        /\ voice_text_missing(r)
        /\ Finish("voice", r, Ok(JSONResponse([error |-> "No text provided"], 400)))

\* POST /api/voice up to the provider call
VoiceCall ==
    /\ Accepting
    /\ \E r \in VoiceRequests :
        /\ ~voice_text_missing(r)
        /\ Suspend("voice", r, voice_call(r), EmptyDict)

\* the voice handler resumes with the provider's outcome
VoiceReturn ==
    /\ pc = "awaiting"
    /\ handler = "voice"
    /\ \E o \in SpeechOutcomes : Resume(o, Ok(voice_return(o)))

Next ==
    \/ ChatUnknownMode
    \/ CasualCall
    \/ LessonCall
    \/ CasualReturn
    \/ LessonReturn
    \/ VoiceReject
    \/ VoiceCall
    \/ VoiceReturn

Spec == Init /\ [][Next]_vars

(***************************************************************************)
(* Properties.                                                             *)
(***************************************************************************)
IsChat == handler \in {"chat", "casual", "lesson"}
\* the provider call of this request failed: it raised, or its completion
\* carried no choice to read the reply from
CallFailed ==
    /\ outcome # None
    /\ \/ outcome[1].raised
       \/ handler \in {"casual", "lesson"} /\ outcome[1].value.choices = <<>>
CallSucceeded ==
    /\ handler \in {"casual", "lesson"}
    /\ outcome # None
    /\ ~outcome[1].raised
    /\ outcome[1].value.choices # <<>>
\* floor(remainingSeconds / 60 * 100) clamped to [150, 500], in exact arithmetic
ClampedTokens(remainingSeconds) ==
    Max(150, Min(500, (remainingSeconds * 100) \div 60))

\* C1: a /api/chat request whose mode is present and is neither "casual"
\* nor "lesson" gets exactly {error: "Unknown mode. Use 'casual' or
\* 'lesson'."} and the provider is never called for it.
C1_UnknownModeRejected ==
    (IsChat /\ "mode" \in DOMAIN req /\ req["mode"] \notin {"casual", "lesson"})
    => /\ pc = "done"
       /\ calls = <<>>
       /\ unhandled = None
       /\ sent = <<[kind |-> "json", status_code |-> 200,
                    content |-> [error |-> "Unknown mode. Use 'casual' or 'lesson'."]]>>
C1_Witness ==
    /\ pc = "done"
    /\ "mode" \in DOMAIN req
    /\ req["mode"] = "tutor"
    /\ Len(sent) = 1

\* C2: in casual and lesson mode, when the provider call fails the handler
\* returns {error: <message>, mode: <the request's mode>} without a reply
\* field, and no fault escapes the handler.
C2_CallFaultBecomesEnvelope ==
    (pc = "done" /\ handler \in {"casual", "lesson"} /\ CallFailed)
    => /\ unhandled = None
       /\ Len(sent) = 1
       /\ DOMAIN sent[1].content = {"error", "mode"}
       /\ sent[1].content["mode"] = Get(req, "mode", "casual")
       /\ outcome[1].raised => sent[1].content["error"] = outcome[1].msg
C2_Witness ==
    /\ pc = "done"
    /\ handler = "lesson"
    /\ outcome = Some(Raise("Request timed out."))
    /\ sent = <<JSONBody([error |-> "Request timed out.", mode |-> "lesson"])>>

\* C3 (as claimed): the lesson call's max_tokens is floor(remainingSeconds /
\* 60 * 100) clamped to [150, 500], remainingSeconds being the resolved
\* entry's durationSeconds or 300; the casual call's max_tokens is 500.
C3_MaxTokensFormula ==
    /\ (handler = "lesson" /\ calls # <<>>)
       => /\ calls[1].max_tokens = ClampedTokens(frame.time_remaining)
          /\ frame.time_remaining =
                IF frame.current_timing # None
                   /\ "durationSeconds" \in DOMAIN frame.current_timing[1]
                THEN frame.current_timing[1]["durationSeconds"] ELSE 300
    /\ (handler = "casual" /\ calls # <<>>) => calls[1].max_tokens = 500

\* C4 (as claimed): in both chat modes the topics of the system prompt are
\* ["General"] when the request's topics are absent or empty, else the
\* request's topics in order.
C4_TopicsDefault ==
    (handler \in {"casual", "lesson"} /\ calls # <<>>)
    => LET expected == IF "topics" \notin DOMAIN req \/ req["topics"] = <<>>
                       THEN <<"General">> ELSE req["topics"]
       IN  /\ frame.topics = expected
           /\ calls[1].system.topics_str = Join(expected)

\* C5: for a timing list and a non-negative index, the lookup yields the
\* element at the index when index < length and nothing otherwise, and
\* never an out-of-bounds fault.
C5_LookupInBounds ==
    (handler = "lesson" /\ Get(req, "currentComponent", 0) >= 0)
    => LET list == Get(req, "componentTiming", <<>>)
           index == Get(req, "currentComponent", 0)
       IN  /\ calls # <<>>
           /\ unhandled = None
           /\ frame.current_timing =
                 IF index < Len(list) THEN <<list[index + 1]>> ELSE <<>>
C5_Witness ==
    /\ handler = "lesson"
    /\ Get(req, "currentComponent", 0) = 1
    /\ Len(Get(req, "componentTiming", <<>>)) = 2
    /\ calls # <<>>
    /\ frame.current_timing = <<req["componentTiming"][2]>>

\* C6: in casual mode (also by default) and lesson mode, when the provider
\* call succeeds the envelope carries the provider's text unmodified as
\* reply, the handled mode as mode, and no error field.
C6_ReplyUnmodified ==
    (pc = "done" /\ handler \in {"casual", "lesson"} /\ CallSucceeded)
    => /\ unhandled = None
       /\ Len(sent) = 1
       /\ sent[1].status_code = 200
       /\ {"reply", "mode"} \subseteq DOMAIN sent[1].content
       /\ "error" \notin DOMAIN sent[1].content
       /\ sent[1].content["reply"] = outcome[1].value.choices[1].content
       /\ sent[1].content["mode"] = Get(req, "mode", "casual")
C6_Witness ==
    /\ pc = "done"
    /\ handler = "casual"
    /\ "mode" \notin DOMAIN req
    /\ CallSucceeded
    /\ sent = <<JSONBody([reply |-> "Sure!", mode |-> "casual"])>>

\* C7: a /api/voice request whose text is missing or empty gets a JSON
\* error with status 400 and the provider is never called for it.
C7_VoiceRejectsEmptyText ==
    (handler = "voice" /\ ("text" \notin DOMAIN req \/ req["text"] = ""))
    => /\ pc = "done"
       /\ calls = <<>>
       /\ unhandled = None
       /\ Len(sent) = 1
       /\ sent[1].kind = "json"
       /\ sent[1].status_code = 400
       /\ "error" \in DOMAIN sent[1].content
C7_Witness ==
    /\ handler = "voice"
    /\ pc = "done"
    /\ "text" \in DOMAIN req
    /\ req["text"] = ""
    /\ Len(sent) = 1
    /\ sent[1].status_code = 400

\* C8: a /api/voice request with text gets an audio/mpeg body exactly when
\* the provider returned without fault and bytes were extracted from what
\* it returned, the body being those bytes; otherwise it gets a whole JSON
\* error with status 500.
C8_VoiceBinaryIffExtracted ==
    (handler = "voice" /\ pc = "done" /\ calls # <<>>)
    => LET extracted == IF outcome[1].raised THEN Raise(outcome[1].msg)
                        ELSE extract_audio_bytes(outcome[1].value)
           found == ~extracted.raised /\ extracted.value # None
       IN  /\ unhandled = None
           /\ Len(sent) = 1
           /\ found => sent[1] = [kind |-> "stream", status_code |-> 200,
                                   media_type |-> "audio/mpeg",
                                   body |-> extracted.value[1]]
           /\ ~found => /\ sent[1].kind = "json"
                         /\ sent[1].status_code = 500
                         /\ "error" \in DOMAIN sent[1].content
C8_Witness ==
    /\ handler = "voice"
    /\ pc = "done"
    /\ outcome # None
    /\ ~outcome[1].raised
    /\ outcome[1].value.type = "object"
    /\ sent = <<StreamingResponse(<<>>, "audio/mpeg")>>

\* C9: while a request is handled the provider is called at most once, and
\* the finished request has exactly one outcome, a success response or a
\* structured error response; before that it has none.
C9_SingleCallSingleOutcome ==
    /\ Len(calls) <= 1
    /\ pc = "done" => (Len(sent) = 1 /\ unhandled = None)
    /\ pc # "done" => (sent = <<>> /\ unhandled = None)
    /\ (pc = "done" /\ CallFailed) => Len(calls) = 1
C9_Witness ==
    /\ pc = "done"
    /\ handler = "lesson"
    /\ CallFailed
    /\ Len(calls) = 1
    /\ Len(sent) = 1

\* the parts of a successful lesson request that use the resolved timing
LessonSucceeded == pc = "done" /\ handler = "lesson" /\ CallSucceeded
SentenceOmitted == calls[1].system.remaining_time = None
SentenceFor(seconds) ==
    /\ calls[1].system.remaining_time # None
    /\ calls[1].system.remaining_time[1].minutes = FormatMinutes(seconds)
BudgetFor(seconds) ==
    /\ frame.time_remaining = seconds
    /\ calls[1].max_tokens = lesson_max_tokens(seconds)

\* C10 (as claimed): in a successful lesson request timeRemaining is null
\* exactly when the lookup resolved no timing (empty list, or index >=
\* length), exactly when the sentence is omitted and the budget uses 300;
\* otherwise timeRemaining is the entry's durationSeconds, the value of the
\* sentence and of the budget.
C10_TimingUsesAgree_AsClaimed ==
    LessonSucceeded
    => LET list == Get(req, "componentTiming", <<>>)
           index == Get(req, "currentComponent", 0)
           unresolved == list = <<>> \/ index >= Len(list)
           entry == frame.current_timing[1]
       IN  /\ (sent[1].content["timeRemaining"] = None) <=> unresolved
           /\ SentenceOmitted <=> unresolved
           /\ unresolved => BudgetFor(300)
           /\ ~unresolved =>
                 /\ "durationSeconds" \in DOMAIN entry
                 /\ sent[1].content["timeRemaining"] = <<entry["durationSeconds"]>>
                 /\ SentenceFor(entry["durationSeconds"])
                 /\ BudgetFor(entry["durationSeconds"])

\* C10 (amended): timeRemaining is null exactly when the lookup resolved no
\* timing or resolved an empty entry, exactly when the sentence is omitted
\* and the budget uses 300; otherwise timeRemaining is the entry's
\* durationSeconds, or 300 when the entry has none, the value of the
\* sentence and of the budget.
C10_TimingUsesAgree ==
    LessonSucceeded
    => LET list == Get(req, "componentTiming", <<>>)
           index == Get(req, "currentComponent", 0)
           unresolved == list = <<>> \/ index >= Len(list)
           unusable == unresolved \/ frame.current_timing = <<EmptyDict>>
           entry == frame.current_timing[1]
           seconds == IF "durationSeconds" \in DOMAIN entry
                      THEN entry["durationSeconds"] ELSE 300
       IN  /\ unresolved <=> (frame.current_timing = None)
           /\ (sent[1].content["timeRemaining"] = None) <=> unusable
           /\ SentenceOmitted <=> unusable
           /\ unusable => BudgetFor(300)
           /\ ~unusable =>
                 /\ sent[1].content["timeRemaining"] = <<seconds>>
                 /\ SentenceFor(seconds)
                 /\ BudgetFor(seconds)
C10_Witness ==
    /\ LessonSucceeded
    /\ frame.current_timing # None
    /\ Get(frame.current_timing[1], "durationSeconds", 300) = 90
    /\ sent[1].content["timeRemaining"] = <<90>>
    /\ calls[1].system.remaining_time[1].minutes = [sign |-> "", digits |-> 2]
    /\ calls[1].max_tokens = 150

====
